---- MODULE Spec2Model ----
(***************************************************************************)
(* Store-consistency layer of chord-craft (src/main.py): the JSON backing  *)
(* file, the normalizing get_store, and the list / create / update /       *)
(* delete handlers of the two collections "progressions" and "shapes".     *)
(* Each request handler is one atomic action (requests run one at a time). *)
(***************************************************************************)
EXTENDS Integers, Sequences, FiniteSets, TLC

\* ---------------------------------------------------------------- bounds
MaxRecs == 2        \* records in the whole document (both collections)
MaxPasses == 2      \* list requests in a row that are told apart

\* ------------------------------------------------------------ JSON values
\* An id as stored in a record: the key may be absent, the empty string, a
\* non-empty string, a generated string "<prefix>-<hex>", or a JSON array
\* (truthy but unhashable in Python).
NoId == [t |-> "missing", n |-> 0]
EmptyId == [t |-> "empty", n |-> 0]
ListId == [t |-> "list", n |-> 0]
UserId == [t |-> "user", n |-> 0]

\* the values uuid4 is seen to draw: one for every record there can be
Suffix == 1..MaxRecs

\* f"{prefix}-{uuid.uuid4().hex[:8]}", u being the value uuid4 drew
generate_id(prefix, u) == [t |-> prefix, n |-> u]

Truthy(id) == id.t \notin {"missing", "empty"}
Hashable(id) == id.t # "list"

\* A chord as stored: key absent, JSON null, or a string (sequence of
\* characters; " " is the whitespace character).
NoChord == [t |-> "missing", s |-> <<>>]
NullChord == [t |-> "null", s |-> <<>>]
Str(s) == [t |-> "str", s |-> s]
\* the fixed label of lines 109, 197 and 213 ("untitled chord"), one token
Placeholder == <<"UNTITLED">>

\* Python str(x) of a stored chord value
str(c) == IF c.t = "null" THEN <<"N", "o", "n", "e">> ELSE c.s

RECURSIVE lstrip(_)
lstrip(s) == IF s # <<>> /\ Head(s) = " " THEN lstrip(Tail(s)) ELSE s

RECURSIVE rstrip(_)
rstrip(s) ==
    IF s # <<>> /\ s[Len(s)] = " " THEN rstrip(SubSeq(s, 1, Len(s) - 1)) ELSE s

\* str.strip()
strip(s) == rstrip(lstrip(s))

\* A non-dict entry of a collection (a JSON string, number, ...).
JunkP == [isdict |-> FALSE, id |-> NoId, name |-> 0]
JunkS == [isdict |-> FALSE, id |-> NoId, chord |-> NoChord, nfrets |-> 0, startFret |-> 0]

\* A collection slot of the top-level object: absent key, a non-list value,
\* or a list of entries.
Coll(t, items) == [t |-> t, items |-> items]
EmptyList == Coll("list", <<>>)

\* The backing file: absent, not valid JSON, valid JSON that is not an
\* object, or a JSON object.
Doc(st, p, s) == [st |-> st, progressions |-> p, shapes |-> s]
EmptyDoc == Doc("obj", EmptyList, EmptyList)
Absent == Doc("absent", EmptyList, EmptyList)
Garbage == Doc("garbage", EmptyList, EmptyList)
NonObject == Doc("nonobj", EmptyList, EmptyList)
\* the file as open("w") leaves it: empty, which json.load cannot decode
Truncated == Doc("empty", EmptyList, EmptyList)

Keys == {"progressions", "shapes"}

VARIABLES
    file,   \* the backing file data/data.json
    req,    \* the last request received
    resp,   \* the response to it
    store,  \* what get_store did in it: returned (no exception), changed
    pass,   \* after a list request: how many list requests ran in a row (n,
            \* counted up to MaxPasses), the document the last one's get_store
            \* loaded (raw) and the document it returned (data)
    threads \* requests served at the same time by threads of the worker
            \* pool: for each thread where it is in its handler, what it
            \* loaded, what it has yet to save and what it answers

vars == <<file, req, resp, store, pass, threads>>

\* ------------------------------------------------------------ persistence
load_data(f) == IF f.st \in {"absent", "garbage", "empty"} THEN EmptyDoc ELSE f

save_data(data) == data

\* ---------------------------------------------------------- normalization
\* line 107: str(entry.get("chord", "")).strip()
stripped_chord(c) == strip(IF c.t = "missing" THEN <<>> ELSE str(c))

\* or_placeholder keeping the empty chord
or_placeholder_none(chord) == chord

\* lines 108-109: if not chord: the placeholder
or_placeholder(chord) == IF chord = <<>> THEN Placeholder ELSE chord

\* set_chord reporting a change whether or not the chord differs
set_chord_always(entry, chord) ==
    [entry |-> [entry EXCEPT !.chord = Str(chord)], changed |-> TRUE]

\* set_chord resetting the diagram's startFret along with the chord
set_chord_reset(entry, chord) ==
    [entry |-> IF entry.chord # Str(chord) \/ entry.startFret < 1
               THEN [entry EXCEPT !.chord = Str(chord), !.startFret = 1] ELSE entry,
     changed |-> entry.chord # Str(chord) \/ entry.startFret < 1]

\* lines 110-113: store the repaired chord if the stored one differs
set_chord(entry, chord) ==
    [entry |-> IF entry.chord # Str(chord) THEN [entry EXCEPT !.chord = Str(chord)] ELSE entry,
     changed |-> entry.chord # Str(chord)]

normalize_shape_entry(entry) == set_chord(entry, or_placeholder(stripped_chord(entry.chord)))

\* needs_new_id regenerating every id
needs_new_id_always(item_id, seen_ids) == TRUE

\* line 128: not item_id or item_id in seen_ids
needs_new_id(item_id, seen_ids) == ~Truthy(item_id) \/ item_id \in seen_ids

\* add_seen forgetting the id
add_seen_none(seen_ids, id) == seen_ids

\* line 131: seen_ids.add(item["id"])
add_seen(seen_ids, id) == seen_ids \cup {id}

\* lines 129 and 133: the item with its id (re)assigned, then normalized
with_id(item, regen, prefix, draws) ==
    IF regen THEN [item EXCEPT !.id = generate_id(prefix, Head(draws))] ELSE item

apply_normalizer(item, normalizer) ==
    IF normalizer THEN normalize_shape_entry(item) ELSE [entry |-> item, changed |-> FALSE]

Pass(err, items, changed, draws, short) ==
    [err |-> err, items |-> items, changed |-> changed, draws |-> draws, short |-> short]

\* The loop of normalize_ids from index i on. draws is what uuid4 will
\* return on the coming calls; short records a call made with none left;
\* err an exception (hashing an unhashable id).
RECURSIVE normalize_loop(_, _, _, _, _, _, _)
RECURSIVE normalize_item(_, _, _, _, _, _, _, _, _)
normalize_item(items, i, seen_ids, changed, prefix, normalizer, draws, regen, n) ==
    normalize_loop([items EXCEPT ![i] = n.entry], i + 1,
                   add_seen(seen_ids, n.entry.id), changed \/ regen \/ n.changed,
                   prefix, normalizer, IF regen THEN Tail(draws) ELSE draws)

normalize_loop(items, i, seen_ids, changed, prefix, normalizer, draws) ==
    IF i > Len(items) THEN Pass(FALSE, items, changed, draws, FALSE)
    ELSE IF ~items[i].isdict
    THEN normalize_loop(items, i + 1, seen_ids, changed, prefix, normalizer, draws)
    ELSE IF Truthy(items[i].id) /\ ~Hashable(items[i].id)
    THEN Pass(TRUE, items, changed, draws, FALSE)
    ELSE IF needs_new_id(items[i].id, seen_ids) /\ draws = <<>>
    THEN Pass(FALSE, items, changed, draws, TRUE)
    ELSE normalize_item(items, i, seen_ids, changed, prefix, normalizer, draws,
                        needs_new_id(items[i].id, seen_ids),
                        apply_normalizer(with_id(items[i], needs_new_id(items[i].id, seen_ids),
                                                 prefix, draws), normalizer))

normalize_ids(coll, prefix, normalizer, draws) ==
    IF coll.t # "list" THEN Pass(FALSE, coll.items, FALSE, draws, FALSE)
    ELSE normalize_loop(coll.items, 1, {}, FALSE, prefix, normalizer, draws)

\* What get_store yields: the returned document, the changed flag and the
\* backing file afterwards; err when an exception leaves get_store.
Store(err, data, changed, f, draws, short) ==
    [err |-> err, data |-> data, changed |-> changed, file |-> f,
     draws |-> draws, short |-> short]

Raised(f, draws) == Store(TRUE, f, FALSE, f, draws, FALSE)

\* lines 91-94: a key that is missing or no list becomes []
ensure_list(coll) == IF coll.t # "list" THEN EmptyList ELSE coll

\* get_store saving whether or not anything changed
store_return_always(f, data, changed, draws, short) ==
    Store(FALSE, data, changed, save_data(data), draws, short)

\* lines 99-102
store_return(f, data, changed, draws, short) ==
    Store(FALSE, data, changed, IF changed THEN save_data(data) ELSE f, draws, short)

\* line 97
store_shapes(f, changed, p, s) ==
    IF s.err THEN Raised(f, s.draws)
    ELSE store_return(f, Doc("obj", Coll("list", p.items), Coll("list", s.items)),
                      changed \/ s.changed, s.draws, p.short \/ s.short)

\* line 96
store_progressions(f, data, changed, p) ==
    IF p.err THEN Raised(f, p.draws)
    ELSE store_shapes(f, changed \/ p.changed, p,
                      normalize_ids(ensure_list(data.shapes), "shape", TRUE, p.draws))

store_loaded(f, data, draws) ==
    IF data.st # "obj" THEN Raised(f, draws)
    ELSE store_progressions(f, data,
                            data.progressions.t # "list" \/ data.shapes.t # "list",
                            normalize_ids(ensure_list(data.progressions), "prg", FALSE, draws))

get_store(f, draws) == store_loaded(f, load_data(f), draws)

\* ------------------------------------------------------- request payloads
\* A stored progression has name 1, a client sends name 2; name 0 stands for
\* a payload without the required field.
ProgressionCreate == {[name |-> 2], [name |-> 0]}

\* chord strings a client sends in a valid payload: blank, padded
PayloadChords == {<<" ">>, <<" ", "a", " ">>}

FRETS == 6          \* Diagram.frets min_items = max_items
MIN_START_FRET == 1 \* Diagram.startFret ge

ChordShapePayload ==
    {[chord |-> c, nfrets |-> FRETS, startFret |-> MIN_START_FRET] : c \in PayloadChords}
    \cup {[chord |-> <<"a">>, nfrets |-> FRETS - 1, startFret |-> MIN_START_FRET],
          [chord |-> <<"a">>, nfrets |-> FRETS, startFret |-> MIN_START_FRET - 1]}

\* the constraints of Diagram on a payload
Diagram(payload) == payload.nfrets = FRETS /\ payload.startFret >= MIN_START_FRET

\* Progression(id=..., name=..., ...).dict()
Progression(id, payload) == [isdict |-> TRUE, id |-> id, name |-> payload.name]

\* payload.chord.strip() or the placeholder
payload_chord(chord) == IF strip(chord) = <<>> THEN Placeholder ELSE strip(chord)

\* ChordShape(id=..., chord=..., diagram=...).dict()
ChordShape(id, payload) ==
    [isdict |-> TRUE, id |-> id, chord |-> Str(payload_chord(payload.chord)),
     nfrets |-> payload.nfrets, startFret |-> payload.startFret]

Prefix(key) == IF key = "progressions" THEN "prg" ELSE "shape"
Record(key, id, payload) ==
    IF key = "progressions" THEN Progression(id, payload) ELSE ChordShape(id, payload)

Items(data, key) == IF key = "progressions" THEN data.progressions.items ELSE data.shapes.items
WithItems(data, key, items) ==
    IF key = "progressions" THEN [data EXCEPT !.progressions = Coll("list", items)]
    ELSE [data EXCEPT !.shapes = Coll("list", items)]

\* ids a request can name in its path: any non-empty string
PathIds(key) == {UserId} \cup {generate_id(Prefix(key), u) : u \in Suffix}

\* ... that is not an id uuid4 is yet to make up while the request is served
Named(key, draws) ==
    PathIds(key) \ {generate_id(Prefix(key), draws[i]) : i \in 1..Len(draws)}

\* --------------------------------------------------------------- handlers
\* The request as received: operation, collection, the id in the path (NoId
\* when there is none) and the payload (NoPayload when there is none).
Request(op, key, id, payload) == [op |-> op, key |-> key, id |-> id, payload |-> payload]
NoPayload == [name |-> 0]
NoRequest == Request("none", "none", NoId, NoPayload)

\* The response of a request: the HTTP status, the body (the returned list,
\* or the returned record as a list of one) and, for 404, the collection
\* the detail message names. 500 stands for an exception that leaves the
\* handler.
Response(status, body, detail) == [status |-> status, body |-> body, detail |-> detail]
NoResponse == Response(0, <<>>, "")

\* Every handler is given s, what its call of get_store yielded, and yields
\* the backing file afterwards, the response and what get_store reported.
Result(f, response, s) ==
    [file |-> f, resp |-> response,
     store |-> [returned |-> ~s.err, changed |-> s.changed],
     draws |-> s.draws, short |-> s.short]

\* HTTPException(status_code=404, ...)
NotFound(key, s) == Result(s.file, Response(404, <<>>, key), s)

\* an exception other than HTTPException
Unhandled(s) == Result(s.file, Response(500, <<>>, ""), s)

\* response_model=List[Progression] / List[ChordShape]: what a returned
\* entry has to be for the response to be built
Conforms(key, item) ==
    item.isdict /\ (key = "shapes" => Diagram(item))

list(key, s) ==
    IF s.err THEN Unhandled(s)
    ELSE IF \E i \in 1..Len(Items(s.data, key)) : ~Conforms(key, Items(s.data, key)[i])
    THEN Unhandled(s)
    ELSE Result(s.file, Response(200, Items(s.data, key), ""), s)

\* data[key].append(record.dict()); save_data(data); return record
append(key, s, rec) ==
    Result(save_data(WithItems(s.data, key, Append(Items(s.data, key), rec))),
           Response(201, <<rec>>, ""), s)

\* u is the value uuid4 draws for the new record
create(key, payload, s, u) ==
    IF s.err THEN Unhandled(s)
    ELSE append(key, s, Record(key, generate_id(Prefix(key), u), payload))

\* index of the first entry at which the update loop stops: a non-dict entry
\* (existing.get raises) or the entry with the id; 0 when the loop runs out
RECURSIVE scan(_, _, _)
scan(items, idx, id) ==
    IF idx > Len(items) THEN 0
    ELSE IF ~items[idx].isdict \/ items[idx].id = id THEN idx
    ELSE scan(items, idx + 1, id)

\* the assignment landing on the first entry
replace_first(items, idx, rec) == [items EXCEPT ![1] = rec]

\* data[key][idx] = updated.dict()
replace(items, idx, rec) == [items EXCEPT ![idx] = rec]

update_at(key, s, idx, updated) ==
    IF idx = 0 THEN NotFound(key, s)
    ELSE IF ~Items(s.data, key)[idx].isdict THEN Unhandled(s)
    ELSE Result(save_data(WithItems(s.data, key, replace(Items(s.data, key), idx, updated))),
                Response(200, <<updated>>, ""), s)

update(key, id, payload, s) ==
    IF s.err THEN Unhandled(s)
    ELSE update_at(key, s, scan(Items(s.data, key), 1, id), Record(key, id, payload))

\* [p for p in data[key] if p.get("id") != id]
RECURSIVE filtered(_, _)
filtered(items, id) ==
    IF items = <<>> THEN <<>>
    ELSE IF Head(items).id # id THEN <<Head(items)>> \o filtered(Tail(items), id)
    ELSE filtered(Tail(items), id)

delete_kept(key, s, items, kept) ==
    IF \E i \in 1..Len(items) : ~items[i].isdict THEN Unhandled(s)
    ELSE IF Len(kept) = Len(items) THEN NotFound(key, s)
    ELSE Result(save_data(WithItems(s.data, key, kept)), Response(204, <<>>, ""), s)

delete(key, id, s) ==
    IF s.err THEN Unhandled(s)
    ELSE delete_kept(key, s, Items(s.data, key), filtered(Items(s.data, key), id))

\* ------------------------------------------------------------------ uuid4
Ids(items) == {items[i].id : i \in 1..Len(items)}

\* the values in the generated ids of backing file f
Used(f) ==
    {id.n : id \in {x \in Ids(f.progressions.items) \cup Ids(f.shapes.items) :
                        x.t \in {"prg", "shape"}}}

\* The sequences of n pairwise different values of S
RECURSIVE Draws(_, _)
Draws(S, n) ==
    IF n = 0 THEN {<<>>}
    ELSE UNION {{<<x>> \o t : t \in Draws(S \ {x}, n - 1)} : x \in S}

\* How many times get_store calls generate_id on backing file f (measured
\* on placeholder draws)
Calls(f) == MaxRecs - Len(get_store(f, [i \in 1..MaxRecs |-> 0 - i]).draws)

\* What uuid4 returns on the successive calls get_store makes on the backing
\* file: values that occur in no id of the document on file, pairwise
\* different (uuid4 is random; a repeat is taken not to happen).
uuid4 == Draws(Suffix \ Used(file), Calls(file))

\* What uuid4 returns on the call after those: different again.
uuid4_after(draws) == Suffix \ (Used(file) \cup {draws[i] : i \in 1..Len(draws)})

\* ---------------------------------------------------------------- actions
Total(f) == Len(load_data(f).progressions.items) + Len(load_data(f).shapes.items)

Payloads(key) == IF key = "progressions" THEN ProgressionCreate ELSE ChordShapePayload
\* a validation that lets every payload through
Validate_any(key, payload) == TRUE

\* pydantic validation of the payload, done before the handler is called
Validate(key, payload) ==
    IF key = "progressions" THEN payload.name # 0 ELSE Diagram(payload)

Valid(key) == {x \in Payloads(key) : Validate(key, x)}

NoPass == [n |-> 0, raw |-> Absent, data |-> Absent]

\* The request's effects: its handler ran on the draws uuid4 made and yielded r.
Apply(r, request) ==
    /\ r.draws = <<>>
    /\ ~r.short
    /\ file' = r.file
    /\ resp' = r.resp
    /\ store' = r.store
    /\ req' = request
    /\ UNCHANGED threads

\* 422: the payload fails validation, the handler is not called
Rejected(request) ==
    /\ file' = file
    /\ resp' = Response(422, <<>>, "")
    /\ store' = [returned |-> FALSE, changed |-> FALSE]
    /\ req' = request
    /\ UNCHANGED threads

\* a list request is one normalization pass: its input and output are kept
Listed(key, s) ==
    /\ Apply(list(key, s), Request("list", key, NoId, NoPayload))
    /\ pass' = [n |-> IF pass.n < MaxPasses THEN pass.n + 1 ELSE pass.n,
                raw |-> load_data(file), data |-> s.data]

Created(key, s, fresh) ==
    \E payload \in Valid(key) :
        IF s.err THEN Apply(Unhandled(s), Request("create", key, NoId, payload))
        ELSE \E u \in fresh :
                Apply(create(key, payload, s, u), Request("create", key, NoId, payload))

Updated(key, s, ids) ==
    \E id \in ids, payload \in Valid(key) :
        Apply(update(key, id, payload, s), Request("update", key, id, payload))

Deleted(key, s, ids) ==
    \E id \in ids :
        Apply(delete(key, id, s), Request("delete", key, id, NoPayload))

list_progressions == \E draws \in uuid4 : Listed("progressions", get_store(file, draws))

create_progression ==
    /\ Total(file) < MaxRecs
    /\ pass' = NoPass
    /\ \/ \E payload \in ProgressionCreate \ Valid("progressions") :
            Rejected(Request("create", "progressions", NoId, payload))
       \/ \E draws \in uuid4 :
            Created("progressions", get_store(file, draws), uuid4_after(draws))

update_progression ==
    /\ pass' = NoPass
    /\ \/ \E id \in PathIds("progressions"), payload \in ProgressionCreate \ Valid("progressions") :
            Rejected(Request("update", "progressions", id, payload))
       \/ \E draws \in uuid4 : Updated("progressions", get_store(file, draws), Named("progressions", draws))

delete_progression ==
    /\ pass' = NoPass
    /\ \E draws \in uuid4 : Deleted("progressions", get_store(file, draws), Named("progressions", draws))

list_shapes == \E draws \in uuid4 : Listed("shapes", get_store(file, draws))

create_shape ==
    /\ Total(file) < MaxRecs
    /\ pass' = NoPass
    /\ \/ \E payload \in ChordShapePayload \ Valid("shapes") :
            Rejected(Request("create", "shapes", NoId, payload))
       \/ \E draws \in uuid4 : Created("shapes", get_store(file, draws), uuid4_after(draws))

update_shape ==
    /\ pass' = NoPass
    /\ \/ \E id \in PathIds("shapes"), payload \in ChordShapePayload \ Valid("shapes") :
            Rejected(Request("update", "shapes", id, payload))
       \/ \E draws \in uuid4 : Updated("shapes", get_store(file, draws), Named("shapes", draws))

delete_shape ==
    /\ pass' = NoPass
    /\ \E draws \in uuid4 : Deleted("shapes", get_store(file, draws), Named("shapes", draws))

\* ------------------------------------------------------- starting documents
\* Stored progressions: a non-dict entry, and records whose id is empty,
\* a string, or an unhashable JSON value.
StoredProgressions ==
    {JunkP} \cup {[isdict |-> TRUE, id |-> id, name |-> 1] : id \in {EmptyId, UserId, ListId}}

Shape(id, chord, nfrets, startFret) ==
    [isdict |-> TRUE, id |-> id, chord |-> chord, nfrets |-> nfrets, startFret |-> startFret]

\* Stored shapes: a non-dict entry, a well-formed record, and records with
\* the id absent, the chord padded, blank, absent or null, the diagram off.
StoredShapes ==
    {JunkS,
     Shape(UserId, Str(<<"a">>), FRETS, MIN_START_FRET),
     Shape(NoId, Str(<<" ", "a">>), FRETS, MIN_START_FRET),
     Shape(UserId, Str(<<" ">>), FRETS - 1, MIN_START_FRET - 1),
     Shape(UserId, NoChord, FRETS, MIN_START_FRET),
     Shape(UserId, NullChord, FRETS, MIN_START_FRET)}

\* the lists of exactly n elements of S
RECURSIVE Lists(_, _)
Lists(S, n) ==
    IF n = 0 THEN {<<>>} ELSE {<<x>> \o t : x \in S, t \in Lists(S, n - 1)}

\* a collection slot holding n entries (a slot that is no list holds none)
StoredColls(S, n) ==
    {Coll("list", l) : l \in Lists(S, n)}
    \cup (IF n = 0 THEN {Coll("missing", <<>>), Coll("notlist", <<>>)} ELSE {})

StoredFiles ==
    {Absent, Garbage, NonObject} \cup
    UNION {{Doc("obj", p, s) : p \in StoredColls(StoredProgressions, n[1]),
                               s \in StoredColls(StoredShapes, n[2])} :
           n \in {m \in (0..MaxRecs) \X (0..MaxRecs) : m[1] + m[2] <= MaxRecs}}

\* the threads that serve requests at the same time
Threads == {1, 2}

\* A thread: pc is "idle" (no request yet), "run" (in its handler, with
\* documents yet to save), "open" (inside save_data, between open("w") and
\* the end of json.dump) or "done" (answered). raw is what load_data
\* returned to it, saves the documents its save_data calls are yet to
\* write, prev the file as its last open("w") found it, wrote the document
\* its last save_data wrote, drawn the values uuid4 returned to it, and
\* early tells that it loaded before the other thread opened the file for
\* writing.
Thread(pc, request, raw, saves, response, drawn, early) ==
    [pc |-> pc, req |-> request, raw |-> raw, saves |-> saves, resp |-> response,
     prev |-> Absent, wrote |-> Absent, drawn |-> drawn, early |-> early]

Idle == Thread("idle", NoRequest, Absent, <<>>, NoResponse, {}, FALSE)

Init ==
    /\ file \in StoredFiles
    /\ req = NoRequest
    /\ resp = NoResponse
    /\ store = [returned |-> FALSE, changed |-> FALSE]
    /\ pass = NoPass
    /\ threads = [t \in Threads |-> Idle]

Next ==
    \/ list_progressions
    \/ create_progression
    \/ update_progression
    \/ delete_progression
    \/ list_shapes
    \/ create_shape
    \/ update_shape
    \/ delete_shape

\* Requests served one at a time, from any starting document.
Spec == Init /\ [][Next]_vars

\* List requests only: normalization passes applied in a row to any
\* starting document.
NextNormalize == list_progressions \/ list_shapes

SpecNormalize == Init /\ [][NextNormalize]_vars

\* ------------------------------------------------ requests served at once
\* The handlers are plain functions, which the framework runs on the threads
\* of a worker pool: two requests interleave at their accesses to the
\* backing file, which are load_data's read, save_data's open("w") and the
\* end of save_data's json.dump. What a handler does in between works on
\* the document it loaded and is decided by it.
Other(t) == CHOOSE u \in Threads : u # t

\* the values uuid4 has returned to the threads
Drawn == UNION {threads[t].drawn : t \in Threads}

\* What uuid4 returns to a thread on the calls its get_store makes: never
\* what it returned before.
uuid4_thread == Draws(Suffix \ (Used(file) \cup Drawn), Calls(file))

\* the requests the threads serve
ThreadRequests ==
    {Request("list", "shapes", NoId, NoPayload),
     Request("create", "progressions", NoId, [name |-> 2]),
     Request("create", "shapes", NoId,
             [chord |-> <<" ", "a", " ">>, nfrets |-> FRETS, startFret |-> MIN_START_FRET]),
     Request("delete", "shapes", UserId, NoPayload)}

\* the handler of request q on s, what its get_store yielded
handle(q, s, u) ==
    IF q.op = "list" THEN list(q.key, s)
    ELSE IF q.op = "create" THEN create(q.key, q.payload, s, u)
    ELSE IF q.op = "update" THEN update(q.key, q.id, q.payload, s)
    ELSE delete(q.key, q.id, s)

\* The documents the request hands to save_data, in order: get_store's
\* (line 100) when it changed something, the handler's when it got to it.
Saves(q, s, r) ==
    (IF ~s.err /\ s.changed THEN <<s.data>> ELSE <<>>)
    \o (IF q.op # "list" /\ r.resp.status \in {200, 201, 204} THEN <<r.file>> ELSE <<>>)

\* the thread has called open("w")
HasOpened(th) == th.pc = "open" \/ th.wrote # Absent

Loaded(t, q, saves, response, drawn) ==
    threads' = [threads EXCEPT ![t] =
                    Thread(IF saves = <<>> THEN "done" ELSE "run", q, load_data(file),
                           saves, response, drawn, ~HasOpened(threads[Other(t)]))]

Handled(t, q, s, r, drawn) ==
    /\ r.draws = <<>>
    /\ ~r.short
    /\ Loaded(t, q, Saves(q, s, r), r.resp, drawn)

Loading(t, q, s, drawn) ==
    IF q.op = "create" /\ ~s.err
    THEN \E u \in Suffix \ (Used(file) \cup Drawn \cup drawn) :
            Handled(t, q, s, handle(q, s, u), drawn \cup {u})
    ELSE Handled(t, q, s, handle(q, s, 0), drawn)

\* A thread takes a request: load_data reads the file, and the thread works
\* on what it read up to its first save_data, or to its answer.
begin_request ==
    /\ UNCHANGED <<file, req, resp, store, pass>>
    /\ \E t \in Threads :
            /\ threads[t].pc = "idle"
            /\ \E q \in ThreadRequests, draws \in uuid4_thread :
                    Loading(t, q, get_store(file, draws), {draws[i] : i \in 1..Len(draws)})

\* a document with the values of its generated ids blanked
Blur(items) ==
    [i \in 1..Len(items) |->
        IF items[i].id.t \in {"prg", "shape"}
        THEN [items[i] EXCEPT !.id = generate_id(items[i].id.t, 0)] ELSE items[i]]

\* the two documents take as many bytes on file: they differ in the values
\* of generated ids at most
SameLength(a, b) ==
    /\ a.st = b.st
    /\ Blur(a.progressions.items) = Blur(b.progressions.items)
    /\ Blur(a.shapes.items) = Blur(b.shapes.items)

\* What the file holds once json.dump has written data from the start of a
\* file that holds f: data if the file was empty or held as many bytes;
\* otherwise data as well if it is the longer one, and data followed by the
\* end of f, which is no valid JSON, if it is the shorter one.
Written(data, f) ==
    IF f = Truncated \/ SameLength(data, f) THEN {data} ELSE {data, Garbage}

\* save_data, line 29: open("w") empties the file
save_open ==
    /\ UNCHANGED <<req, resp, store, pass>>
    /\ \E t \in Threads :
            /\ threads[t].pc = "run"
            /\ file' = Truncated
            /\ threads' = [threads EXCEPT ![t].pc = "open", ![t].prev = file]

\* save_data, line 30: json.dump has written the document and the file is
\* closed; the thread goes on to its next save_data or answers
save_dump ==
    /\ UNCHANGED <<req, resp, store, pass>>
    /\ \E t \in Threads :
            /\ threads[t].pc = "open"
            /\ file' \in Written(Head(threads[t].saves), file)
            /\ threads' = [threads EXCEPT
                                ![t].pc = IF Len(threads[t].saves) = 1 THEN "done" ELSE "run",
                                ![t].saves = Tail(threads[t].saves),
                                ![t].wrote = Head(threads[t].saves)]

NextThreads == begin_request \/ save_open \/ save_dump

\* Two requests served at the same time, on a starting document of one
\* entry at most.
InitThreads == Init /\ Total(file) <= 1

SpecThreads == InitThreads /\ [][NextThreads]_vars

\* ------------------------------------------------------------- properties
\* A document whose collections are sequences of records, every id being a
\* string or missing.
RecordsOnly(d) ==
    /\ d.st = "obj"
    /\ d.progressions.t = "list"
    /\ d.shapes.t = "list"
    /\ \A key \in Keys : \A i \in 1..Len(Items(d, key)) :
            Items(d, key)[i].isdict /\ Hashable(Items(d, key)[i].id)

\* every record of items has a non-empty id that no other record of it has
UniqueIds(items) ==
    \A i \in 1..Len(items) :
        items[i].isdict =>
            /\ Truthy(items[i].id)
            /\ \A j \in 1..Len(items) :
                    (j # i /\ items[j].isdict) => items[j].id # items[i].id

\* the id of the record at i is the id of an earlier record of items
Shared(items, i) ==
    \E j \in 1..(i - 1) : items[j].isdict /\ items[j].id = items[i].id

\* a normalization pass ran last and returned
Passed == pass.n >= 1 /\ store.returned

\* C1: one normalization pass over a document whose collections are
\* sequences of records (ids missing, empty or duplicated) returns a
\* document in which every record has a non-empty id, and the ids within a
\* collection are pairwise distinct.
C1_Uniqueness ==
    (pass.n >= 1 /\ RecordsOnly(pass.raw)) =>
        /\ store.returned
        /\ \A key \in Keys : UniqueIds(Items(pass.data, key))

\* a pass ran over a collection of records in which an id occurs twice
C1_Witness ==
    /\ pass.n >= 1
    /\ RecordsOnly(pass.raw)
    /\ \E key \in Keys : \E i \in 1..Len(Items(pass.raw, key)) :
            Truthy(Items(pass.raw, key)[i].id) /\ Shared(Items(pass.raw, key), i)

\* the id the pass gave the record at i is a generated id of the
\* collection's kind that the input did not contain and no other record has
FreshAt(key, raw, data, i) ==
    /\ data[i].id.t = Prefix(key)
    /\ data[i].id \notin Ids(raw)
    /\ \A j \in 1..Len(data) : j # i => data[j].id # data[i].id

\* C3: a pass leaves the id of a record alone when the id is non-empty and
\* no earlier record of the collection has it (so the first of several
\* records sharing an id keeps it), and gives a fresh id to every record
\* whose id an earlier record has.
C3_FirstKeepsId ==
    Passed =>
        \A key \in Keys : \A i \in 1..Len(Items(pass.raw, key)) :
            (Items(pass.raw, key)[i].isdict /\ Truthy(Items(pass.raw, key)[i].id)) =>
                IF Shared(Items(pass.raw, key), i)
                THEN FreshAt(key, Items(pass.raw, key), Items(pass.data, key), i)
                ELSE Items(pass.data, key)[i].id = Items(pass.raw, key)[i].id

\* a pass returned a collection in which a later record of two sharing an
\* id has been given another id
C3_Witness ==
    /\ Passed
    /\ \E key \in Keys : \E i \in 1..Len(Items(pass.raw, key)) :
            /\ Items(pass.raw, key)[i].isdict
            /\ Truthy(Items(pass.raw, key)[i].id)
            /\ Shared(Items(pass.raw, key), i)
            /\ Items(pass.data, key)[i].id # Items(pass.raw, key)[i].id

\* C4: a pass that follows a pass that returned runs on the document that
\* one produced, reports changed = false, returns its input unaltered and
\* leaves the backing file as it is.
C4_Idempotent ==
    [][Passed =>
          /\ pass'.raw = pass.data
          /\ store'.returned
          /\ ~store'.changed
          /\ pass'.data = pass'.raw
          /\ file' = file]_vars

\* two passes in a row, the second one over a document the first repaired
C4_Witness ==
    /\ pass.n >= 2
    /\ store.returned
    /\ ~store.changed
    /\ \E key \in Keys : \E i \in 1..Len(Items(pass.data, key)) :
            Items(pass.data, key)[i].id.t = Prefix(key)
    /\ \E i \in 1..Len(pass.data.shapes.items) :
            pass.data.shapes.items[i].chord = Str(Placeholder)

\* the entry new is the entry old but for the fields a pass repairs
Repaired(key, old, new) ==
    IF ~old.isdict THEN new = old
    ELSE IF key = "progressions" THEN [new EXCEPT !.id = old.id] = old
    ELSE [new EXCEPT !.id = old.id, !.chord = old.chord] = old

\* C5: a pass returns, for each collection, as many entries as it loaded,
\* the entry at each position being the loaded one but for its id and,
\* for a shape, its chord.
C5_OrderPreserved ==
    Passed =>
        \A key \in Keys :
            /\ Len(Items(pass.data, key)) = Len(Items(pass.raw, key))
            /\ \A i \in 1..Len(Items(pass.raw, key)) :
                    Repaired(key, Items(pass.raw, key)[i], Items(pass.data, key)[i])

\* a pass repaired the second of two entries and left the first as it was
C5_Witness ==
    /\ Passed
    /\ store.changed
    /\ \E key \in Keys :
            /\ Len(Items(pass.raw, key)) >= 2
            /\ Items(pass.data, key)[1] = Items(pass.raw, key)[1]
            /\ Items(pass.data, key)[2] # Items(pass.raw, key)[2]

\* C2: after a request that reached its handler, whatever the starting
\* document and the requests before it, every record of the persisted
\* document has a non-empty id that no other record of its collection has.
C2_PersistedUnique ==
    (req.op # "none" /\ resp.status # 422) =>
        \A key \in Keys : UniqueIds(Items(file, key))

\* some record of items has the id
Matches(id, items) == \E i \in 1..Len(items) : items[i].isdict /\ items[i].id = id

\* the position of the first record of items with the id
Position(id, items) ==
    CHOOSE i \in 1..Len(items) :
        /\ items[i].isdict /\ items[i].id = id
        /\ \A j \in 1..(i - 1) : ~(items[j].isdict /\ items[j].id = id)

\* C6: an update naming the id of a record of the collection succeeds,
\* returns the record built from the payload with that id, and the persisted
\* collection has as many entries as before, with that record at the
\* position of the one that had the id.
C6_UpdateInPlace ==
    [][(/\ req'.op = "update"
        /\ Validate(req'.key, req'.payload)
        /\ Matches(req'.id, Items(file, req'.key)))
       => /\ resp'.status = 200
          /\ resp'.body = <<Record(req'.key, req'.id, req'.payload)>>
          /\ Len(Items(file', req'.key)) = Len(Items(file, req'.key))
          /\ Items(file', req'.key)[Position(req'.id, Items(file, req'.key))]
                = Record(req'.key, req'.id, req'.payload)]_vars

\* C7: a delete naming the id of a record of the collection succeeds, and
\* the persisted collection is one entry shorter and has no record with
\* that id.
C7_DeleteOne ==
    [][(req'.op = "delete" /\ Matches(req'.id, Items(file, req'.key)))
       => /\ resp'.status = 204
          /\ Len(Items(file', req'.key)) = Len(Items(file, req'.key)) - 1
          /\ ~Matches(req'.id, Items(file', req'.key))]_vars

\* C8: an update or delete naming an id no record of the collection has is
\* answered not-found and leaves the persisted document as it was.
C8_UnknownId ==
    [][(/\ req'.op \in {"update", "delete"}
        /\ req'.op = "update" => Validate(req'.key, req'.payload)
        /\ ~Matches(req'.id, Items(file, req'.key)))
       => /\ resp'.status = 404
          /\ file' = file]_vars

\* a chord that is missing, empty or made of whitespace only
Blank(c) == c.t = "missing" \/ (c.t = "str" /\ \A i \in 1..Len(c.s) : c.s[i] = " ")

\* t is s without the whitespace at its two ends
Trimmed(t, s) ==
    \E a \in 0..Len(s) :
        /\ a + Len(t) <= Len(s)
        /\ SubSeq(s, a + 1, a + Len(t)) = t
        /\ \A i \in (1..a) \cup ((a + Len(t) + 1)..Len(s)) : s[i] = " "
        /\ t # <<>> => t[1] # " " /\ t[Len(t)] # " "

\* the stored chord is what chord c is to be stored as
StoredAs(c, stored) ==
    /\ stored.t = "str"
    /\ IF Blank(c) THEN stored.s = Placeholder ELSE Trimmed(stored.s, str(c))

\* a stored chord that is a string, not empty and without whitespace at its ends
NotBlank(c) == ~Blank(c) /\ Trimmed(c.s, str(c))

\* C9: once get_store has returned in a request, every shape record of the
\* persisted document has a chord that is not blank; a pass stores the
\* placeholder for a chord that is missing, empty or whitespace only and
\* the trimmed chord for any other; the record a create or update of a
\* shape returns and persists holds the payload's chord in the same way.
C9_NoBlankChord ==
    /\ store.returned =>
            \A i \in 1..Len(file.shapes.items) :
                file.shapes.items[i].isdict => NotBlank(file.shapes.items[i].chord)
    /\ Passed =>
            \A i \in 1..Len(pass.raw.shapes.items) :
                pass.raw.shapes.items[i].isdict =>
                    StoredAs(pass.raw.shapes.items[i].chord, pass.data.shapes.items[i].chord)
    /\ (req.key = "shapes" /\ req.op \in {"create", "update"} /\ resp.status \in {200, 201}) =>
            /\ StoredAs(Str(req.payload.chord), resp.body[1].chord)
            /\ \E i \in 1..Len(file.shapes.items) : file.shapes.items[i] = resp.body[1]

\* an update of a shape with a whitespace-only chord succeeded on a document
\* that also holds a shape whose chord was trimmed
C9_Witness ==
    /\ req.op = "update"
    /\ req.key = "shapes"
    /\ resp.status = 200
    /\ Blank(Str(req.payload.chord))
    /\ resp.body[1].chord = Str(Placeholder)
    /\ \E i \in 1..Len(file.shapes.items) : file.shapes.items[i].chord = Str(<<"a">>)

\* C10: once get_store has returned in a request, every shape record of the
\* persisted document has a diagram with six frets and a startFret of at
\* least 1.
C10_DiagramShape ==
    store.returned =>
        \A i \in 1..Len(file.shapes.items) :
            file.shapes.items[i].isdict => Diagram(file.shapes.items[i])

\* C11: in every request that reaches its handler, whatever the backing
\* file holds, get_store returns without an exception, and the document a
\* list request got from it has both collections as sequences.
C11_NeverFails ==
    (req.op # "none" /\ resp.status # 422) =>
        /\ store.returned
        /\ pass.n >= 1 =>
                /\ pass.data.st = "obj"
                /\ pass.data.progressions.t = "list"
                /\ pass.data.shapes.t = "list"

\* C12: a create with a valid payload is answered with the created record,
\* whose id is a generated id of the collection's kind that no stored record
\* has; the persisted collection is the stored one with that record
\* appended as its last entry; and a list of the same collection issued
\* next returns the persisted entries, the created record last.
C12_CreateAppends ==
    [][/\ (req'.op = "create" /\ Validate(req'.key, req'.payload)) =>
            /\ resp'.status = 201
            /\ resp'.body[1].id.t = Prefix(req'.key)
            /\ resp'.body[1].id \notin Ids(Items(file, req'.key))
            /\ resp'.body[1] = Record(req'.key, resp'.body[1].id, req'.payload)
            /\ Len(Items(file', req'.key)) = Len(Items(file, req'.key)) + 1
            /\ Items(file', req'.key)[Len(Items(file', req'.key))] = resp'.body[1]
       /\ (req.op = "create" /\ resp.status = 201 /\ req'.op = "list" /\ req'.key = req.key) =>
            /\ resp'.status = 200
            /\ resp'.body = Items(file, req.key)
            /\ resp'.body[Len(resp'.body)] = resp.body[1]
            /\ file' = file]_vars

\* the payload breaks a field constraint of its collection's payload model
Violates(key, payload) ==
    IF key = "progressions" THEN payload.name = 0
    ELSE payload.nfrets # FRETS \/ payload.startFret < MIN_START_FRET

\* C13: a create or update whose payload breaks a field constraint is
\* answered with the validation failure (422, which is not the not-found
\* 404), get_store is not run, and the backing file is left as it was.
C13_RejectedBeforeMutation ==
    [][(req'.op \in {"create", "update"} /\ Violates(req'.key, req'.payload)) =>
            /\ resp'.status = 422
            /\ resp'.status # NotFound(req'.key, Raised(file, <<>>)).resp.status
            /\ ~store'.returned
            /\ ~store'.changed
            /\ file' = file]_vars

\* an update of a stored shape with a diagram of 5 frets was rejected while
\* the stored document still needs repair
C13_Witness ==
    /\ req.op = "update"
    /\ req.key = "shapes"
    /\ req.payload.nfrets # FRETS
    /\ resp.status = 422
    /\ Matches(req.id, file.shapes.items)
    /\ \E i \in 1..Len(file.shapes.items) : ~Truthy(file.shapes.items[i].id)

\* C14: a load_data that runs while the other thread is inside save_data
\* returns either the document the file held before that save_data began or
\* the document that save_data is writing.
C14_AllOrNothing ==
    [][\A t \in Threads :
          (/\ threads[t].pc = "idle"
           /\ threads'[t].pc # "idle"
           /\ threads[Other(t)].pc = "open")
          => threads'[t].raw \in {load_data(threads[Other(t)].prev),
                                  Head(threads[Other(t)].saves)}]_vars

\* the thread's request changed its collection: a create, update or delete
\* that succeeded
Mutated(th) == th.req.op \in {"create", "update", "delete"} /\ th.resp.status \in {200, 201, 204}

\* C15: when two mutating requests have both loaded before either opened
\* the file for writing, the file holds, once both have answered, the whole
\* document that one of them wrote.
C15_LastWriteWins ==
    (\A t \in Threads : threads[t].pc = "done" /\ threads[t].early /\ Mutated(threads[t]))
        => file \in {threads[t].wrote : t \in Threads}

\* C16: a pass that returns reports changed exactly when the document it
\* returns differs from the one it loaded; if so the backing file holds the
\* returned document when get_store returns, and if not the file is not
\* written (an absent file stays absent).
C16_WritesIffChanged ==
    [][(pass'.n >= 1 /\ store'.returned) =>
          /\ pass'.raw = load_data(file)
          /\ store'.changed <=> pass'.data # pass'.raw
          /\ store'.changed => file' = pass'.data
          /\ ~store'.changed => file' = file]_vars

\* a pass rewrote a chord and the file holds the document it returned, in
\* place of the one it loaded
C16_Witness ==
    /\ Passed
    /\ store.changed
    /\ file = pass.data
    /\ file # pass.raw
    /\ \E i \in 1..Len(pass.raw.shapes.items) :
            pass.raw.shapes.items[i].chord # pass.data.shapes.items[i].chord

\* C17: an update or delete whose get_store returned, whatever entries the
\* collection holds, ends in success or in not-found.
C17_TypedOutcome ==
    (req.op \in {"update", "delete"} /\ store.returned) =>
        resp.status \in {200, 204, 404}

\* the ids of the records of items
RecordIds(items) == {items[i].id : i \in {j \in 1..Len(items) : items[j].isdict}}

\* get_store finds nothing to repair in the backing file
Unrepaired(s) == ~s.err /\ ~s.short /\ ~s.changed

IsNormalized(f) == Unrepaired(get_store(f, <<>>))

OtherKey(key) == IF key = "progressions" THEN "shapes" ELSE "progressions"

\* Requests served one at a time on a starting document that needs no
\* repair.
InitNormalized == Init /\ IsNormalized(file)

SpecNormalized == InitNormalized /\ [][Next]_vars

\* C18: a request on a document that needs no repair leaves the other
\* collection as it is; a list leaves the whole file as it is; a create
\* that succeeds adds the id of the record it returns, a new one, to the ids
\* of its collection; an update leaves the ids as they are; a delete that
\* succeeds removes the id it names; and a request that does not succeed
\* leaves the ids as they are.
C18_Frame ==
    [][(IsNormalized(file) /\ req'.op # "none") =>
          /\ Items(file', OtherKey(req'.key)) = Items(file, OtherKey(req'.key))
          /\ req'.op = "list" => file' = file
          /\ req'.op = "create" =>
                IF resp'.status = 201
                THEN /\ resp'.body[1].id \notin RecordIds(Items(file, req'.key))
                     /\ RecordIds(Items(file', req'.key))
                            = RecordIds(Items(file, req'.key)) \cup {resp'.body[1].id}
                ELSE RecordIds(Items(file', req'.key)) = RecordIds(Items(file, req'.key))
          /\ req'.op = "update" =>
                RecordIds(Items(file', req'.key)) = RecordIds(Items(file, req'.key))
          /\ req'.op = "delete" =>
                IF resp'.status = 204
                THEN RecordIds(Items(file', req'.key))
                            = RecordIds(Items(file, req'.key)) \ {req'.id}
                ELSE RecordIds(Items(file', req'.key)) = RecordIds(Items(file, req'.key))]_vars

\* a delete on a document that needed no repair removed one of the two
\* records of its collection
C18_Witness ==
    /\ req.op = "delete"
    /\ resp.status = 204
    /\ store.returned
    /\ ~store.changed
    /\ Len(Items(file, req.key)) = 1
    /\ Items(file, req.key)[1].isdict

\* C19: when two list requests have loaded the same document before either
\* opened the file for writing, then once both have answered, every record
\* either of them returned is found in the file under the id it was
\* returned with, at its position.
C19_RepairsDurable ==
    (/\ \A t \in Threads :
            /\ threads[t].pc = "done"
            /\ threads[t].req.op = "list"
            /\ threads[t].resp.status = 200
            /\ threads[t].early
     /\ threads[1].raw = threads[2].raw)
    => \A t \in Threads : \A i \in 1..Len(threads[t].resp.body) :
            /\ i <= Len(Items(file, threads[t].req.key))
            /\ Items(file, threads[t].req.key)[i].id = threads[t].resp.body[i].id

====
